---- MODULE Spec2Model ----
(***************************************************************************)
(* Sota Vision Test GUI client (vision_test_gui.py).                       *)
(*                                                                         *)
(* The model covers SotaConnection (the locked request/response exchanges  *)
(* over one TCP byte stream) and the threads of VisionTestGUI: the Tk main *)
(* thread with its queue of root.after callbacks, the toggle-tracking and  *)
(* take-photo threads, the frame pollers (_frame_loop) and the DeepFace    *)
(* worker (_race_worker).                                                  *)
(*                                                                         *)
(* Bytes are integers 0..255.  The inbound side of the socket is the       *)
(* sequence `stream` of bytes that have arrived and were not yet read;     *)
(* `owner` names, byte for byte, the thread whose command the byte         *)
(* answers.  What the server sends in answer to a command, and how much of *)
(* it arrives before the peer closes or the read times out, is an input    *)
(* chosen when the response is read.                                       *)
(*                                                                         *)
(* The read primitives _read_exact and _read_line are also modelled as the *)
(* loops they are, one sock.recv a step, and send_get_frame and            *)
(* send_take_photo as functions of the bytes on the wire (variable `io`).  *)
(* The same variable carries the parts of _render_frame that are functions *)
(* of their inputs: the race label shown, the client frame rate and the    *)
(* face crop rectangle.                                                    *)
(***************************************************************************)
EXTENDS Integers, Sequences, FiniteSets, TLC

\* ------------------------------------------------------------------ bounds

\* Number of frame-poller threads that can exist at once.
NumPollers == 2

\* Number of faults of the server or the network in one run: a response
\* whose metadata is not JSON, a response cut short by the peer's close, a
\* response whose rest arrives after the read timed out.
MaxFaults == 1

\* Capacity of the Tk queue of pending root.after callbacks.
MaxAfter == 1

\* The client frame rate on its own: the clock's last reading (seconds),
\* the longest time between two polls, and the number of polls recorded.
MaxTime == 6
MaxGap == 3
MaxPolls == 5

\* The face crop on its own: the corners x, y and the sides w, h of the
\* first face box as the metadata may give them, and the sides of the
\* decoded image.
MaxCorner == 3
MaxSide == 10
MaxImage == 20

\* A read primitive called on its own: the largest n asked of _read_exact
\* and the largest number of bytes the peer sends before it closes or
\* falls silent.
MaxRead == 3
MaxSent == 3

\* ------------------------------------------------- program constants

\* b"\n"
NL == 10

\* time.time() + 4 in _do_take_photo
PhotoPause == 4

\* self._race_interval = 5.0
RaceInterval == 5

\* queue.Queue(maxsize=1)
RaceQueueMaxsize == 1

\* sock.recv(min(n - len(buf), 65536))
RecvMax == 65536

\* now - t < 2.0
FpsWindow == 2

\* "FRAME", "PHOTO": the markers the headers are tested against
FRAME_HDR == <<70, 82, 65, 77, 69>>
PHOTO_HDR == <<80, 72, 79, 84, 79>>

\* ------------------------------------------------- inputs (server side)

\* A one-line text response ("OK") and an error header ("ERR").
OK_LINE == <<79, 75, NL>>
ERR_LINE == <<69, 82, 82, NL>>

\* {"faces":[{"x":0,"y":0,"w":1,"h":1}]}
JSON_FACE ==
  <<123, 34, 102, 97, 99, 101, 115, 34, 58, 91, 123, 34, 120, 34, 58, 48, 44,
    34, 121, 34, 58, 48, 44, 34, 119, 34, 58, 49, 44, 34, 104, 34, 58, 49,
    125, 93, 125>>

\* {}
JSON_NOFACE == <<123, 125>>

\* {   (not valid JSON)
JSON_BAD == <<123>>

\* A JPEG payload (its first bytes) the image library can open.
JPEG == <<255, 216>>

\* n >= 0 as 4 big-endian bytes, as the server's DataOutputStream writes it.
Int4(n) ==
  << (n \div 16777216) % 256, (n \div 65536) % 256, (n \div 256) % 256,
     n % 256 >>

FrameResp(meta, img) ==
  FRAME_HDR \o <<NL>> \o Int4(Len(meta)) \o meta \o Int4(Len(img)) \o img

PhotoResp(img) == PHOTO_HDR \o <<NL>> \o Int4(Len(img)) \o img

GetFrameResponses ==
  { FrameResp(JSON_FACE, JPEG), FrameResp(JSON_NOFACE, <<>>),
    FrameResp(JSON_BAD, JPEG), ERR_LINE }

TakePhotoResponses == { PhotoResp(JPEG), PhotoResp(<<>>), ERR_LINE }

LineResponses == { OK_LINE }

\* ------------------------------------------------- SotaConnection: reads
\* A read works on the bytes `s` that arrive before the stream ends (by the
\* peer closing or by the read timing out).  It yields
\*   st  "ok" | "eof" (ran out of bytes) | "exc" (another exception)
\*   n   the number of bytes of s it consumed
\*   val the value returned (st = "ok")
\*   in  the primitive that ran out of bytes (st = "eof")

\* The element of a singleton set.  A value that is used several times is
\* bound as x \in {e}, which computes it once.
The(S) == CHOOSE x \in S : TRUE

Min(a, b) == IF a < b THEN a ELSE b
Max(a, b) == IF a > b THEN a ELSE b

\* bytes.decode("utf-8", errors="replace") on single-byte input: a byte that
\* is not ASCII becomes U+FFFD.
DecodeReplace(b) == [i \in 1..Len(b) |-> IF b[i] < 128 THEN b[i] ELSE 65533]

\* str.startswith
StartsWith(line, prefix) ==
  /\ Len(line) >= Len(prefix)
  /\ SubSeq(line, 1, Len(prefix)) = prefix

_read_line(s) ==
  IF \E i \in 1..Len(s) : s[i] = NL
    THEN LET i == CHOOSE j \in 1..Len(s) :
                    s[j] = NL /\ \A k \in 1..(j - 1) : s[k] # NL
         IN [st |-> "ok", n |-> i, val |-> DecodeReplace(SubSeq(s, 1, i - 1)),
             in |-> "none"]
    ELSE [st |-> "eof", n |-> Len(s), val |-> <<>>, in |-> "line"]

_read_exact(s, n) ==
  IF n <= 0 THEN [st |-> "ok", n |-> 0, val |-> <<>>, in |-> "none"]
  ELSE IF Len(s) >= n
    THEN [st |-> "ok", n |-> n, val |-> SubSeq(s, 1, n), in |-> "none"]
    ELSE [st |-> "eof", n |-> Len(s), val |-> <<>>, in |-> "exact"]

\* struct.unpack(">i", data)[0]: signed 32-bit big-endian
Unpack(d) ==
  LET hi == IF d[1] >= 128 THEN d[1] - 256 ELSE d[1]
  IN hi * 16777216 + d[2] * 65536 + d[3] * 256 + d[4]

IntOf(r) == IF r.st = "ok" THEN [r EXCEPT !.val = Unpack(r.val)] ELSE r

_read_int(s) == The({IntOf(r) : r \in {_read_exact(s, 4)}})

\* json.loads on the documents the server model sends: the parsed mapping,
\* of which the model keeps whether "faces" holds a usable face box (and,
\* for the mapping {"error": header}, the header's text).
JsonValid(b) == b \in {JSON_FACE, JSON_NOFACE}

JsonLoads(b) == [faces |-> (b = JSON_FACE), error |-> FALSE, text |-> <<>>]

Rest(s, n) == SubSeq(s, n + 1, Len(s))

NoMeta == [faces |-> FALSE, error |-> FALSE, text |-> <<>>]

\* {"error": header}: what send_get_frame returns for a header that is not
\* FRAME.
ErrMeta(header) == [faces |-> FALSE, error |-> TRUE, text |-> header]

Result(st, n, meta, img, in) ==
  [st |-> st, n |-> n, meta |-> meta, img |-> img, in |-> in]

\* A read that ran out of bytes after n bytes were consumed before it.
Eof(n, r) == Result("eof", n + r.n, NoMeta, <<>>, r.in)

\* b"" without a read (`if img_len > 0 else b""`)
NoBytes == [st |-> "ok", n |-> 0, val |-> <<>>, in |-> "none"]

\* send_command / the QUIT of disconnect, after the write: one line.
LineRead(h) == Result(h.st, h.n, NoMeta, <<>>, h.in)

RecvLine(s) == The({LineRead(h) : h \in {_read_line(s)}})

\* send_get_frame after the write, statement by statement: each operator
\* takes the stream s, the number n of bytes consumed so far and the value
\* the statement before it read.
GetFrameImage(n, meta, ib) ==
  IF ib.st # "ok" THEN Eof(n, ib)
  ELSE Result("ok", n + ib.n, meta, ib.val, "none")

GetFrameImgLen(s, n, meta, il) ==
  IF il.st # "ok" THEN Eof(n, il)
  ELSE The({GetFrameImage(n + il.n, meta, ib) :
              ib \in {IF il.val > 0
                        THEN _read_exact(Rest(s, n + il.n), il.val)
                      ELSE NoBytes}})

\* metadata = json.loads(meta_bytes...) comes before the image length is
\* read: when it raises, the method is left with the image unread.
GetFrameMeta(s, n, mb) ==
  IF mb.st # "ok" THEN Eof(n, mb)
  ELSE IF ~JsonValid(mb.val)
    THEN Result("exc", n + mb.n, NoMeta, <<>>, "json")
  ELSE The({GetFrameImgLen(s, n + mb.n, JsonLoads(mb.val), il) :
              il \in {_read_int(Rest(s, n + mb.n))}})

GetFrameMetaLen(s, n, ml) ==
  IF ml.st # "ok" THEN Eof(n, ml)
  ELSE The({GetFrameMeta(s, n + ml.n, mb) :
              mb \in {_read_exact(Rest(s, n + ml.n), ml.val)}})

\* A send_get_frame that reads the framed payload whatever the header is.
GetFrameHeaderUntested(s, h) ==
  IF h.st # "ok" THEN Eof(0, h)
  ELSE The({GetFrameMetaLen(s, h.n, ml) : ml \in {_read_int(Rest(s, h.n))}})

GetFrameHeader(s, h) ==
  IF h.st # "ok" THEN Eof(0, h)
  ELSE IF ~StartsWith(h.val, FRAME_HDR)
    THEN Result("ok", h.n, ErrMeta(h.val), <<>>, "none")
  ELSE The({GetFrameMetaLen(s, h.n, ml) : ml \in {_read_int(Rest(s, h.n))}})

RecvGetFrame(s) == The({GetFrameHeader(s, h) : h \in {_read_line(s)}})

\* send_take_photo after the write.
TakePhotoImage(n, ib) ==
  IF ib.st # "ok" THEN Eof(n, ib)
  ELSE Result("ok", n + ib.n, NoMeta, ib.val, "none")

TakePhotoImgLen(s, n, il) ==
  IF il.st # "ok" THEN Eof(n, il)
  ELSE IF il.val > 0
    THEN The({TakePhotoImage(n + il.n, ib) :
                ib \in {_read_exact(Rest(s, n + il.n), il.val)}})
  ELSE Result("ok", n + il.n, NoMeta, <<>>, "none")

\* A send_take_photo that reads the payload whatever the header is.
TakePhotoHeaderUntested(s, h) ==
  IF h.st # "ok" THEN Eof(0, h)
  ELSE The({TakePhotoImgLen(s, h.n, il) : il \in {_read_int(Rest(s, h.n))}})

TakePhotoHeader(s, h) ==
  IF h.st # "ok" THEN Eof(0, h)
  ELSE IF ~StartsWith(h.val, PHOTO_HDR)
    THEN Result("ok", h.n, NoMeta, <<>>, "none")
  ELSE The({TakePhotoImgLen(s, h.n, il) : il \in {_read_int(Rest(s, h.n))}})

RecvTakePhoto(s) == The({TakePhotoHeader(s, h) : h \in {_read_line(s)}})

\* ------------------------------------- SotaConnection: the read loops
\* _read_exact and _read_line as the loops they are, one sock.recv a step.
\* sock.recv(k) hands over between 1 and k of the bytes the peer has sent
\* and that were not read yet, however the network has cut them up; when
\* there are none it returns b"" after the peer's close and raises
\* socket.timeout when the peer is silent.

\* A call of a read primitive on its own.
\*   fn    "exact" (_read_exact) | "line" (_read_line)
\*   n     the number of bytes asked of _read_exact
\*   src   the bytes the peer sends, in order, until it ends
\*   end   how the peer ends: "close", or "stall" (it sends nothing more)
\*   pos   the number of bytes sock.recv has handed over
\*   reads the number of calls of sock.recv that returned bytes
\*   buf   the local buf
\*   st    "run" | "ok" (returned val) | "conn" (ConnectionError) |
\*         "timeout" (socket.timeout out of sock.recv)
Call(fn, n, src, end) ==
  [fn |-> fn, n |-> n, src |-> src, end |-> end, pos |-> 0, reads |-> 0,
   buf |-> <<>>, st |-> "run", val |-> <<>>]

\* A call of send_get_frame or send_take_photo on its own.
\*   fn    "get_frame" | "take_photo"
\*   sent  what the server wrote in answer: the header (without its
\*         newline), the metadata document, the image length, the image
\*   src   those bytes as they are on the wire, and the bytes after them
\*   pos   the number of bytes of src the method has read
\*   st    "run" | "ok" (returned meta and img, or img) | "conn" |
\*         "timeout" | "exc" (json.loads raised)
\*   img   the image returned; <<>> is None
Exchange(fn, sent, src) ==
  [fn |-> fn, sent |-> sent, src |-> src, end |-> "stall", pos |-> 0,
   st |-> "run", meta |-> NoMeta, img |-> <<>>]

\* Byte values a peer sends: the newline, an ASCII letter, a byte that is
\* not ASCII.
SomeBytes == {NL, 65, 200}

\* The sequences of at most n of those bytes.
RECURSIVE Upto(_)
Upto(n) ==
  IF n = 0 THEN {<<>>}
  ELSE LET shorter == Upto(n - 1)
       IN shorter \cup {Append(b, x) : b \in shorter, x \in SomeBytes}

Calls ==
  {Call("exact", n, src, end) :
     n \in 0..MaxRead, src \in Upto(MaxSent), end \in {"close", "stall"}}
  \cup
  {Call("line", 0, src, end) :
     src \in Upto(MaxSent), end \in {"close", "stall"}}

\* sock.recv found nothing to hand over.
RecvNothing(c) ==
  [c EXCEPT !.st = IF c.end = "close" THEN "conn" ELSE "timeout"]

\* sock.recv(...) returned the next k bytes.
RecvChunk(c, k) ==
  [c EXCEPT !.pos = c.pos + k, !.reads = c.reads + 1,
            !.buf = c.buf \o SubSeq(c.src, c.pos + 1, c.pos + k)]

\* One turn of `while len(buf) < n` of _read_exact.
ExactTurns(c) ==
  IF c.pos = Len(c.src) THEN {RecvNothing(c)}
  ELSE {RecvChunk(c, k) :
          k \in 1..Min(Min(c.n - Len(c.buf), RecvMax), Len(c.src) - c.pos)}

\* The loop test of _read_exact fails: `return buf`.
ExactReturn(c) == [c EXCEPT !.st = "ok", !.val = c.buf]

\* `if len(buf) < n` in the place of `while`: a single sock.recv.
ExactGoesOnOnce(c) == Len(c.buf) < c.n /\ c.reads = 0

\* while len(buf) < n
ExactGoesOn(c) == Len(c.buf) < c.n

\* A reader that takes the peer's close for the end of the line.
LineTurnLenient(c) ==
  IF c.pos = Len(c.src)
    THEN IF c.end = "close" /\ c.buf # <<>>
           THEN [c EXCEPT !.st = "ok", !.val = DecodeReplace(c.buf)]
         ELSE RecvNothing(c)
  ELSE IF c.src[c.pos + 1] = NL
    THEN [c EXCEPT !.pos = c.pos + 1, !.reads = c.reads + 1,
                   !.st = "ok", !.val = DecodeReplace(c.buf)]
  ELSE RecvChunk(c, 1)

\* One turn of `while True` of _read_line: sock.recv(1) and the tests.
LineTurn(c) ==
  IF c.pos = Len(c.src) THEN RecvNothing(c)
  ELSE IF c.src[c.pos + 1] = NL
    THEN [c EXCEPT !.pos = c.pos + 1, !.reads = c.reads + 1,
                   !.st = "ok", !.val = DecodeReplace(c.buf)]
  ELSE RecvChunk(c, 1)

\* n as the 4 bytes of a signed 32-bit big-endian integer, for n > -256.
Int4s(n) == IF n >= 0 THEN Int4(n) ELSE <<255, 255, 255, 256 + n>>

\* What a server may write in answer to GET_FRAME or TAKE_PHOTO: a header
\* line with or without the marker, a metadata document, a length (which
\* the client reads as a signed integer) and that many image bytes.
Headers(marker) == {marker, <<69, 82, 82>>, <<>>, <<200>>}

Images == {[len |-> 0, img |-> <<>>], [len |-> Len(JPEG), img |-> JPEG],
           [len |-> -1, img |-> <<>>]}

Sent(hdr, meta, image) ==
  [hdr |-> hdr, meta |-> meta, len |-> image.len, img |-> image.img]

FrameBytes(a) ==
  a.hdr \o <<NL>> \o Int4(Len(a.meta)) \o a.meta \o Int4s(a.len) \o a.img

PhotoBytes(a) == a.hdr \o <<NL>> \o Int4s(a.len) \o a.img

\* The bytes that follow a response on the wire: none yet, or the next
\* response.
Followers == {<<>>, OK_LINE}

Exchanges ==
  {Exchange("get_frame", a, FrameBytes(a) \o more) :
     a \in {Sent(hdr, meta, image) :
              hdr \in Headers(FRAME_HDR),
              meta \in {JSON_FACE, JSON_NOFACE, JSON_BAD},
              image \in Images},
     more \in Followers}
  \cup
  {Exchange("take_photo", a, PhotoBytes(a) \o more) :
     a \in {Sent(hdr, <<>>, image) :
              hdr \in Headers(PHOTO_HDR), image \in Images},
     more \in Followers}

\* ------------------------------------------------------------- threads

Main == <<"main", 0>>
Toggle == <<"toggle", 0>>
Pfagr == <<"pfagr", 0>>
Photo == <<"photo", 0>>
Poller(i) == <<"poller", i>>
NoThread == <<"none", 0>>

Pollers == {Poller(i) : i \in 1..NumPollers}
Threads == {Main, Toggle, Pfagr, Photo} \cup Pollers

\* ------------------------------------------------------------- state

VARIABLES
  \* SotaConnection
  sock,          \* "none" (None) | "open" | "dead" (socket of a failed connect)
  connected,
  lock,          \* the thread inside `with self._lock`, or NoThread
  stream,        \* inbound bytes arrived and not yet read
  owner,         \* owner[i]: the thread whose command stream[i] answers
  peer,          \* "up" | "closed": the server's end of the connection
  \* VisionTestGUI
  tracking, pfagr, streaming,
  frame_thread,  \* the poller self.frame_thread names, or NoThread
  pause_left,    \* _photo_pause_until - time.time(), or 0 when that is past
  deepface_available,
  race_queue,    \* _race_queue: a sequence of jobs
  race_age,      \* time.time() - _race_last, or LongAgo when it is more
  race_result,   \* _race_result: "none" (None) or the label of a job
  race_running,  \* _race_running
  sub_age,       \* history: the time since the last put_nowait that enqueued
                 \* a job, or LongAgo when it is more (or there was none)
  \* threads
  pc,            \* position of each thread of Threads
  after,         \* callbacks scheduled with root.after(0, ...), oldest first
  wpc, wjob,     \* the worker's position and the job it dequeued
  \* environment
  faults,        \* faults the server and the network may still produce
  \* history
  lastExchange,  \* how the request/response cycle ended that the step
                 \* into this state completed (NoExchange after any other
                 \* step)
  lastRender,    \* what the _render_frame that the step into this state ran
                 \* did about a submission ("none" after any other step)
  lost,          \* a _read_exact met the peer's close on this connection
  \* the read primitives and the parts of _render_frame, called on their own
  io             \* the call in progress (its field fn names it), or NoCall

vars ==
  << sock, connected, lock, stream, owner, peer, tracking, pfagr, streaming,
     frame_thread, pause_left, deepface_available, race_queue,
     race_age, race_result, race_running, pc, after, wpc, wjob,
     faults, lastExchange, lastRender, lost, sub_age, io >>

connVars == << sock, connected, lock, stream, owner, peer, faults, lost >>
raceVars ==
  << race_queue, race_age, race_result, race_running, wpc, wjob, sub_age >>
flagVars == << tracking, pfagr, streaming, frame_thread >>

\* Times are kept relative to the clock, which the code only ever compares
\* them with: a time more than RaceInterval back is LongAgo (as _race_last =
\* 0.0 is), a deadline that has passed is 0 seconds ahead.
LongAgo == RaceInterval + 1

NoExchange ==
  [by |-> NoThread, st |-> "none", in |-> "none", foreign |-> FALSE]

\* No read primitive is being called on its own.
NoCall == [Call("none", 0, <<>>, "close") EXCEPT !.st = "none"]

\* A step that completes no request/response cycle.
Silent ==
  /\ lastExchange' = NoExchange
  /\ lastRender' = "none"
  /\ UNCHANGED io

\* A job: `held` tells the worker's slot holds one, `stale` that
\* _clear_info_labels ran after it was submitted, `failed` that
\* DeepFace.analyze raised for it, `poison` that it is None, the sentinel
\* that ends the worker.
NoJob == [stale |-> FALSE, held |-> FALSE, failed |-> FALSE, poison |-> FALSE]
NewJob == [stale |-> FALSE, held |-> TRUE, failed |-> FALSE, poison |-> FALSE]
PoisonPill == [NewJob EXCEPT !.held = FALSE, !.poison = TRUE]

Callback(cb, meta, img) == [cb |-> cb, meta |-> meta, img |-> img]

\* SotaConnection() and VisionTestGUI(), but for self.sock,
\* self.connected and the analysis result (_race_result, _race_running).
ConstructedSession ==
  /\ lock = NoThread
  /\ stream = <<>> /\ owner = <<>> /\ peer = "up"
  /\ tracking = FALSE /\ pfagr = FALSE /\ streaming = FALSE
  /\ frame_thread = NoThread
  /\ pause_left = 0
  /\ deepface_available \in BOOLEAN
  /\ race_queue = <<>> /\ race_age = LongAgo
  /\ pc = [t \in Threads |-> IF t \in Pollers THEN "dead" ELSE "idle"]
  /\ after = <<>>
  /\ wpc = IF deepface_available THEN "get" ELSE "absent"
  /\ wjob = NoJob
  /\ faults \in {0, MaxFaults}
  /\ lastExchange = NoExchange
  /\ lastRender = "none"
  /\ lost = FALSE
  /\ sub_age = LongAgo

\* SotaConnection() and VisionTestGUI(), but for self.sock and
\* self.connected.
Constructed ==
  /\ ConstructedSession
  /\ race_result = "none"
  /\ race_running = FALSE

Init == Constructed /\ sock = "none" /\ connected = FALSE /\ io = NoCall

\* ------------------------------------------------- a request/response cycle

\* A response that is a fault of the server.
Malformed(resp) == resp = FrameResp(JSON_BAD, JPEG)

\* What the server may answer.
Responses(cmd) ==
  LET all == CASE cmd = "GET_FRAME" -> GetFrameResponses
               [] cmd = "TAKE_PHOTO" -> TakePhotoResponses
               [] OTHER -> LineResponses
  IN {resp \in all : faults > 0 \/ ~Malformed(resp)}

Parse(cmd, s) ==
  CASE cmd = "GET_FRAME" -> RecvGetFrame(s)
    [] cmd = "TAKE_PHOTO" -> RecvTakePhoto(s)
    [] OTHER -> RecvLine(s)

\* Where the peer's close may cut a response: before its first byte, inside
\* the header line, inside the first length prefix, one byte short of its
\* end.  Where a stall may cut it: inside the first length prefix, or one
\* byte short of the end of a response that has none.
Cuts(resp, end) ==
  IF end = "close" THEN {k \in {0, 3, 8, Len(resp) - 1} : k < Len(resp)}
  ELSE {Min(8, Len(resp) - 1)}

\* How a response arrives: all of it; or k bytes of it and then the peer
\* closes ("close"), or the rest comes too late for this read ("stall").
Deliveries(resp) ==
  IF peer = "closed" THEN {[k |-> 0, end |-> "close"]}
  ELSE {[k |-> Len(resp), end |-> "full"]}
       \cup IF faults > 0 /\ ~Malformed(resp)
              THEN {[k |-> k, end |-> "close"] : k \in Cuts(resp, "close")}
                   \cup
                   {[k |-> k, end |-> "stall"] : k \in Cuts(resp, "stall")}
              ELSE {}

\* The outcome of sock.sendall under the lock: "sent", or the exception.
\* On a socket whose peer has closed the write may still be accepted by the
\* kernel or fail with BrokenPipeError / ConnectionResetError; self.sock =
\* None raises AttributeError; an unconnected socket raises OSError, which
\* on some systems is BrokenPipeError.
SendOutcomes ==
  CASE sock = "none" -> {"exc"}
    [] sock = "dead" -> {"conn", "exc"}
    [] peer = "closed" -> {"sent", "conn"}
    [] OTHER -> {"sent"}

\* The exception class a read that ran out of bytes ends with: recv
\* returned b"" (ConnectionError) or raised socket.timeout (an OSError that
\* is not a ConnectionError).
EofOutcome(d) == IF d.end = "close" THEN "conn" ELSE "timeout"

Outcome(t, resp, d, avail, availOwner, r) ==
  [st |-> IF r.st = "eof" THEN EofOutcome(d) ELSE r.st,
   in |-> r.in, meta |-> r.meta, img |-> r.img,
   stream |-> Rest(avail, r.n)
              \o IF d.end = "stall" THEN Rest(resp, d.k) ELSE <<>>,
   owner |-> Rest(availOwner, r.n)
             \o IF d.end = "stall" THEN [i \in 1..(Len(resp) - d.k) |-> t]
                ELSE <<>>,
   peer |-> IF d.end = "close" THEN "closed" ELSE peer,
   faults |-> IF peer = "up" /\ (d.end # "full" \/ Malformed(resp))
                THEN faults - 1 ELSE faults,
   foreign |-> \E i \in 1..r.n : availOwner[i] # t]

\* The bytes a read can use are those left on the stream and the d.k bytes
\* of the response that arrive.
ReadFrom(t, cmd, resp, d, avail) ==
  The({Outcome(t, resp, d, avail, owner \o [i \in 1..d.k |-> t], r) :
         r \in {Parse(cmd, avail)}})

ReadOutcome(t, cmd, resp, d) ==
  ReadFrom(t, cmd, resp, d, stream \o SubSeq(resp, 1, d.k))

\* The ways the response `resp` to `cmd`, written by thread t, can be read.
Outcomes(t, cmd, resp) ==
  {ReadOutcome(t, cmd, resp, d) : d \in Deliveries(resp)}

\* `with self._lock:` entered and the command written (out = "sent"), or the
\* write raised and the lock was released again.
Send(t, cmd, out) ==
  /\ lock = NoThread
  /\ out \in SendOutcomes
  /\ lock' = IF out = "sent" THEN t ELSE NoThread
  /\ lastExchange' = IF out = "sent" THEN NoExchange
                      ELSE [by |-> t, st |-> out, in |-> "send",
                            foreign |-> FALSE]
  /\ lastRender' = "none"
  /\ UNCHANGED << stream, owner, peer, faults, lost, io >>

\* A read whose exception leaves the method without releasing the lock.
RecvKeepsLockOnError(t, cmd, o) ==
  /\ lock = t
  /\ lock' = IF o.st = "ok" THEN NoThread ELSE t
  /\ stream' = o.stream
  /\ owner' = o.owner
  /\ peer' = o.peer
  /\ lastExchange' = [by |-> t, st |-> o.st, in |-> o.in,
                      foreign |-> o.foreign]
  /\ lastRender' = "none"
  /\ lost' = (lost \/ (o.st = "conn" /\ o.in = "exact"))
  /\ faults' = o.faults
  /\ UNCHANGED io

\* The response read (or the read failed) and the lock released.
Recv(t, cmd, o) ==
  /\ lock = t
  /\ lock' = NoThread
  /\ stream' = o.stream
  /\ owner' = o.owner
  /\ peer' = o.peer
  /\ lastExchange' = [by |-> t, st |-> o.st, in |-> o.in,
                      foreign |-> o.foreign]
  /\ lastRender' = "none"
  /\ lost' = (lost \/ (o.st = "conn" /\ o.in = "exact"))
  /\ faults' = o.faults
  /\ UNCHANGED io

Goto(t, p) == pc' = [pc EXCEPT ![t] = p]

\* root.after(0, cb): appended to Tk's queue.  A render callback is dropped
\* when MaxAfter callbacks are already pending.
Schedule(q, cb) ==
  IF cb.cb = "render" /\ Len(q) >= MaxAfter THEN q ELSE Append(q, cb)

Plain(cb) == Callback(cb, NoMeta, <<>>)

\* Tk's queue is kept finite: a thread about to schedule _disconnect or
\* _clear_info_labels waits while more than MaxAfter callbacks are pending.
HasRoom == Len(after) <= MaxAfter

\* ------------------------------------------------------ Tk main thread

\* A reset that also ends the worker of the session with the sentinel.
ClearInfoLabelsEndsWorker ==
  /\ race_result' = "none"
  /\ race_age' = LongAgo
  /\ race_queue' = <<PoisonPill>>
  /\ wjob' = IF wjob.held THEN [wjob EXCEPT !.stale = TRUE] ELSE wjob
  /\ UNCHANGED << race_running, wpc, sub_age >>

\* _clear_info_labels: the cached label and the rate limiter's timestamp
\* are reset.  The jobs in flight at that moment are those of the earlier
\* subject: their `stale` mark records it (history only).
ClearInfoLabels ==
  /\ race_result' = "none"
  /\ race_age' = LongAgo
  /\ race_queue' = [i \in 1..Len(race_queue) |->
                      [race_queue[i] EXCEPT !.stale = TRUE]]
  /\ wjob' = IF wjob.held THEN [wjob EXCEPT !.stale = TRUE] ELSE wjob
  /\ UNCHANGED << race_running, wpc, sub_age >>

\* Image.open(io.BytesIO(img_bytes)) succeeds
ImageOpens(img) == StartsWith(img, JPEG)

\* A queue without a capacity (maxsize=0) is never full.
QueueNeverFull(q) == FALSE

\* queue.Queue.full()
QueueFull(q) == Len(q) >= RaceQueueMaxsize

\* A submission test without the rate limiter's conjunct.
EligibleAnyTime(meta) ==
  /\ deepface_available
  /\ meta.faces
  /\ ~race_running
  /\ ~QueueFull(race_queue)

\* The submission test of _render_frame.
Eligible(meta) ==
  /\ deepface_available
  /\ meta.faces
  /\ ~race_running
  /\ ~QueueFull(race_queue)
  /\ race_age > RaceInterval

\* queue.Queue.put_nowait: queue.Full (swallowed by _render_frame's
\* `except Exception: pass`, before _race_last is set) when the queue is
\* full.
PutNowait(q, job) == IF QueueFull(q) THEN q ELSE Append(q, job)

\* _render_frame gets as far as the submission test: there are image bytes
\* and Image.open takes them.
Decodes(cb) == cb.img # <<>> /\ ImageOpens(cb.img)

\* How the crop of an eligible frame ends: the face array is there, or one
\* of faces[0]'s keys, img.crop, convert or np.array raised (a face entry
\* without "x", a box the image cannot be cropped to).  Which it is depends
\* on the metadata and the image alone.
CropEnds == {"cropped", "raised"}

\* What a _render_frame does about a submission: "put" (a job enqueued),
\* "raised" (the crop of an eligible frame raised), "full" (a frame with a
\* face met an occupied queue), "skip" (not eligible for another reason),
\* "nothing" (it returned before the test).
Submission(cb, crop) ==
  IF ~Decodes(cb) THEN "nothing"
  ELSE IF Eligible(cb.meta)
    THEN IF crop = "cropped" THEN "put" ELSE "raised"
  ELSE IF deepface_available /\ cb.meta.faces /\ QueueFull(race_queue)
    THEN "full"
  ELSE "skip"

\* A submission that stamps _race_last before it crops and enqueues.
SubmitStampsFirst(cb, crop) ==
  /\ lastRender' = Submission(cb, crop)
  /\ IF Decodes(cb) /\ Eligible(cb.meta)
       THEN /\ race_age' = 0
            /\ race_queue' = IF crop = "cropped"
                               THEN PutNowait(race_queue, NewJob)
                             ELSE race_queue
            /\ sub_age' = IF crop = "cropped" /\ ~QueueFull(race_queue)
                            THEN 0 ELSE sub_age
            /\ UNCHANGED << race_result, race_running, wpc, wjob >>
       ELSE UNCHANGED raceVars

\* The submission test of _render_frame and the try block under it: the
\* crop, put_nowait and, after both, self._race_last = time.time(); `except
\* Exception: pass` for what either raises.
Submit(cb, crop) ==
  /\ lastRender' = Submission(cb, crop)
  /\ IF Decodes(cb) /\ Eligible(cb.meta) /\ crop = "cropped"
       THEN /\ race_queue' = PutNowait(race_queue, NewJob)
            /\ race_age' = IF QueueFull(race_queue) THEN race_age ELSE 0
            /\ sub_age' = IF QueueFull(race_queue) THEN sub_age ELSE 0
            /\ UNCHANGED << race_result, race_running, wpc, wjob >>
       ELSE UNCHANGED raceVars

\* A _render_frame that takes a lock the worker holds from its dequeue to
\* the end of the job.
RenderFrameWaits(cb) ==
  /\ wpc = "get"
  /\ \E crop \in CropEnds : Submit(cb, crop)

\* _render_frame(metadata, img_bytes)
RenderFrame(cb) == \E crop \in CropEnds : Submit(cb, crop)

\* How sock.connect((host, port)) ends: the server accepts, refuses, or
\* does not answer within the timeout.
ConnectEnds == {"accepted", "connect_refused", "connect_timeout"}

\* A connect whose every failure is a ConnectionError.
ConnectRaisesConnectionError(end) == "conn"

\* The exception sock.connect raises: ConnectionRefusedError, which is a
\* ConnectionError, or socket.timeout, which is an OSError and not a
\* ConnectionError.
ConnectRaises(end) == IF end = "connect_refused" THEN "conn" ELSE "timeout"

\* SotaConnection.connect: self.sock is set before sock.connect,
\* self.connected after it.
ConnectCall(end) ==
  /\ sock' = IF end = "accepted" THEN "open" ELSE "dead"
  /\ connected' = (end = "accepted")
  /\ lastExchange' = IF end = "accepted" THEN NoExchange
                      ELSE [by |-> Main, st |-> ConnectRaises(end),
                            in |-> end, foreign |-> FALSE]

\* _toggle_connection while disconnected: _connect, which reports what
\* connect raised.
Connect ==
  /\ pc[Main] = "idle"
  /\ ~connected
  /\ \E end \in ConnectEnds : ConnectCall(end)
  /\ stream' = <<>> /\ owner' = <<>> /\ peer' = "up" /\ lost' = FALSE
  /\ lastRender' = "none"
  /\ UNCHANGED << lock, faults, flagVars, pause_left,
                  deepface_available, raceVars, pc, after, io >>

\* A callback or thread step that leaves the connection object alone.
ConnUnchanged == UNCHANGED << sock, connected >>

\* The first statements of _disconnect, up to the join.
DisconnectBegin ==
  /\ streaming' = FALSE /\ tracking' = FALSE /\ pfagr' = FALSE
  /\ Goto(Main, "d_join")
  /\ UNCHANGED << frame_thread, connVars, pause_left,
                  deepface_available, raceVars >>
  /\ Silent

\* _toggle_connection while connected.
UserDisconnect ==
  /\ pc[Main] = "idle"
  /\ connected
  /\ DisconnectBegin
  /\ UNCHANGED after

\* `if self.frame_thread and self.frame_thread.is_alive():
\* self.frame_thread.join(timeout=3)` returns: there is no live thread, or
\* it ended, or the 3 s went by (which they may at any moment: nothing
\* bounds the time the poller takes for a step).
Joined(timeout) ==
  IF frame_thread = NoThread THEN TRUE
  ELSE pc[frame_thread] = "dead" \/ timeout

MainJoined ==
  /\ pc[Main] = "d_join"
  /\ \E timeout \in BOOLEAN : Joined(timeout)
  /\ Goto(Main, "d_quit")
  /\ UNCHANGED << connVars, flagVars, pause_left, deepface_available,
                  raceVars, after >>
  /\ Silent

\* A conn.disconnect without its try/except: what fails in the handshake
\* or in the close leaves the method before self.sock = None.
DisconnectEndOrRaise ==
  /\ \E raised \in BOOLEAN :
       /\ sock' = IF raised THEN sock ELSE "none"
       /\ connected' = IF raised THEN connected ELSE FALSE
  /\ ClearInfoLabels
  /\ Goto(Main, "idle")

\* The end of conn.disconnect and of _disconnect: the socket closed and
\* unset, connected = False, the labels cleared.
DisconnectEnd ==
  /\ sock' = "none"
  /\ connected' = FALSE
  /\ ClearInfoLabels
  /\ Goto(Main, "idle")

\* conn.disconnect: `if self.sock:` and the QUIT written under the lock.
MainQuitSend ==
  /\ pc[Main] = "d_quit"
  /\ IF sock = "none"
       THEN /\ DisconnectEnd
            /\ UNCHANGED << lock, stream, owner, peer, faults, lost >>
            /\ Silent
       ELSE \E out \in SendOutcomes :
              /\ Send(Main, "QUIT", out)
              /\ IF out = "sent"
                   THEN /\ Goto(Main, "d_wait")
                        /\ ConnUnchanged
                        /\ UNCHANGED raceVars
                   ELSE /\ DisconnectEnd
                        /\ UNCHANGED << stream, owner, peer, lost >>
  /\ UNCHANGED << flagVars, pause_left, deepface_available,
                  after >>

MainQuitRecv ==
  /\ pc[Main] = "d_wait"
  /\ \E resp \in Responses("QUIT") :
       \E o \in Outcomes(Main, "QUIT", resp) : Recv(Main, "QUIT", o)
  /\ DisconnectEnd
  /\ UNCHANGED << flagVars, pause_left, deepface_available,
                  after >>

\* The Tk event loop runs the oldest pending callback.
RunAfter ==
  /\ pc[Main] = "idle"
  /\ after # <<>>
  /\ after' = Tail(after)
  /\ LET cb == Head(after) IN
       CASE cb.cb = "render" ->
              /\ RenderFrame(cb)
              /\ UNCHANGED << connVars, flagVars, pc >>
         [] cb.cb = "clear" ->
              /\ ClearInfoLabels
              /\ UNCHANGED << connVars, flagVars, pc >>
              /\ lastRender' = "none"
         [] OTHER ->
              /\ DisconnectBegin
              /\ UNCHANGED raceVars
  /\ lastExchange' = NoExchange
  /\ UNCHANGED << pause_left, deepface_available, io >>

\* ------------------------------------------- _do_toggle_tracking thread

otherVars == << pause_left, deepface_available, raceVars, after >>

\* _toggle_tracking: the button starts the thread.  A poller slot must be
\* free for the case that the thread starts a frame loop.
UserToggleTracking ==
  /\ pc[Main] = "idle"
  /\ connected
  /\ pc[Toggle] = "idle"
  /\ \E p \in Pollers : pc[p] = "dead"
  /\ Goto(Toggle, "begin")
  /\ UNCHANGED << connVars, flagVars, otherVars >>
  /\ Silent

\* `if self.tracking:` and, to stop, streaming = False and the join begun.
ToggleBegin ==
  /\ pc[Toggle] = "begin"
  /\ IF tracking
       THEN /\ streaming' = FALSE
            /\ Goto(Toggle, "stop_join")
       ELSE /\ Goto(Toggle, "start_call")
            /\ UNCHANGED streaming
  /\ UNCHANGED << connVars, tracking, pfagr, frame_thread, otherVars >>
  /\ Silent

ToggleJoined ==
  /\ pc[Toggle] = "stop_join"
  /\ \E timeout \in BOOLEAN : Joined(timeout)
  /\ Goto(Toggle, "stop_call")
  /\ UNCHANGED << connVars, flagVars, otherVars >>
  /\ Silent

\* send_command: the write.  An exception ends the thread (`except
\* Exception` sets the status line).
ToggleSend ==
  /\ pc[Toggle] \in {"stop_call", "start_call"}
  /\ \E out \in SendOutcomes :
       /\ Send(Toggle,
               IF pc[Toggle] = "stop_call" THEN "STOP_TRACKING"
               ELSE "START_TRACKING", out)
       /\ Goto(Toggle, IF out # "sent" THEN "idle"
                       ELSE IF pc[Toggle] = "stop_call" THEN "stop_wait"
                       ELSE "start_wait")
  /\ ConnUnchanged
  /\ UNCHANGED << flagVars, otherVars >>

\* STOP_TRACKING answered: tracking = False and the labels' reset scheduled.
StopAnswered(o) ==
  /\ o.st = "ok" => HasRoom
  /\ Recv(Toggle, "STOP_TRACKING", o)
  /\ IF o.st = "ok"
       THEN /\ tracking' = FALSE
            /\ after' = Schedule(after, Plain("clear"))
       ELSE UNCHANGED << tracking, after >>

ToggleStopRecv ==
  /\ pc[Toggle] = "stop_wait"
  /\ \E resp \in Responses("STOP_TRACKING") :
       \E o \in Outcomes(Toggle, "STOP_TRACKING", resp) : StopAnswered(o)
  /\ Goto(Toggle, "idle")
  /\ ConnUnchanged
  /\ UNCHANGED << pfagr, streaming, frame_thread,
                  pause_left, deepface_available, raceVars >>

\* A start that goes on to set the flags whatever the exchange did.
StartAnsweredAnyway(o) ==
  /\ Recv(Toggle, "START_TRACKING", o)
  /\ Goto(Toggle, "set_tracking")

\* START_TRACKING answered.
StartAnswered(o) ==
  /\ Recv(Toggle, "START_TRACKING", o)
  /\ Goto(Toggle, IF o.st = "ok" THEN "set_tracking" ELSE "idle")

ToggleStartRecv ==
  /\ pc[Toggle] = "start_wait"
  /\ \E resp \in Responses("START_TRACKING") :
       \E o \in Outcomes(Toggle, "START_TRACKING", resp) : StartAnswered(o)
  /\ ConnUnchanged
  /\ UNCHANGED << flagVars, otherVars >>

\* self.tracking = True
ToggleSetTracking ==
  /\ pc[Toggle] = "set_tracking"
  /\ tracking' = TRUE
  /\ Goto(Toggle, "set_streaming")
  /\ UNCHANGED << connVars, pfagr, streaming, frame_thread,
                  otherVars >>
  /\ Silent

\* self.streaming = True and the frame thread created and started.
ToggleSetStreaming ==
  /\ pc[Toggle] = "set_streaming"
  /\ streaming' = TRUE
  /\ \E p \in Pollers :
       /\ pc[p] = "dead"
       /\ frame_thread' = p
       /\ pc' = [pc EXCEPT ![p] = "loop", ![Toggle] = "idle"]
  /\ UNCHANGED << connVars, tracking, pfagr, otherVars >>
  /\ Silent

\* ---------------------------------------------- _do_toggle_pfagr thread

UserTogglePfagr ==
  /\ pc[Main] = "idle"
  /\ connected
  /\ pc[Pfagr] = "idle"
  /\ Goto(Pfagr, "call")
  /\ UNCHANGED << connVars, flagVars, otherVars >>
  /\ Silent

\* `if self.pfagr:` and the write of DISABLE_PFAGR or ENABLE_PFAGR.
PfagrSend ==
  /\ pc[Pfagr] = "call"
  /\ \E out \in SendOutcomes :
       /\ Send(Pfagr, IF pfagr THEN "DISABLE_PFAGR" ELSE "ENABLE_PFAGR", out)
       /\ Goto(Pfagr, IF out # "sent" THEN "idle"
                      ELSE IF pfagr THEN "dis_wait" ELSE "en_wait")
  /\ ConnUnchanged
  /\ UNCHANGED << flagVars, otherVars >>

PfagrCommand(p) == IF p = "dis_wait" THEN "DISABLE_PFAGR" ELSE "ENABLE_PFAGR"

PfagrAnswered(cmd, o) ==
  /\ Recv(Pfagr, cmd, o)
  /\ pfagr' = IF o.st = "ok" THEN (cmd = "ENABLE_PFAGR") ELSE pfagr

PfagrAnswer(cmd) ==
  \E resp \in Responses(cmd) :
    \E o \in Outcomes(Pfagr, cmd, resp) : PfagrAnswered(cmd, o)

PfagrRecv ==
  /\ pc[Pfagr] \in {"dis_wait", "en_wait"}
  /\ PfagrAnswer(PfagrCommand(pc[Pfagr]))
  /\ Goto(Pfagr, "idle")
  /\ ConnUnchanged
  /\ UNCHANGED << tracking, streaming, frame_thread, otherVars >>

\* ------------------------------------------------ _do_take_photo thread

UserTakePhoto ==
  /\ pc[Main] = "idle"
  /\ connected
  /\ pc[Photo] = "idle"
  /\ Goto(Photo, "begin")
  /\ UNCHANGED << connVars, flagVars, otherVars >>
  /\ Silent

\* self._photo_pause_until = time.time() + 4
PhotoBegin ==
  /\ pc[Photo] = "begin"
  /\ pause_left' = PhotoPause
  /\ Goto(Photo, "call")
  /\ UNCHANGED << connVars, flagVars, deepface_available, raceVars,
                  after >>
  /\ Silent

PhotoSend ==
  /\ pc[Photo] = "call"
  /\ \E out \in SendOutcomes :
       /\ Send(Photo, "TAKE_PHOTO", out)
       /\ Goto(Photo, IF out = "sent" THEN "wait" ELSE "idle")
  /\ ConnUnchanged
  /\ UNCHANGED << flagVars, otherVars >>

\* The photo, absent or an exception: each ends the thread.
PhotoRecv ==
  /\ pc[Photo] = "wait"
  /\ \E resp \in Responses("TAKE_PHOTO") :
       \E o \in Outcomes(Photo, "TAKE_PHOTO", resp) :
         Recv(Photo, "TAKE_PHOTO", o)
  /\ Goto(Photo, "idle")
  /\ ConnUnchanged
  /\ UNCHANGED << flagVars, otherVars >>

\* ------------------------------------------------- _frame_loop threads

\* The loop test and the pause test of one iteration: the loop ends, or
\* sleeps 0.2 s inside the pause window, or goes on to send_get_frame.
PollerIter(p) ==
  /\ pc[p] = "loop"
  /\ Goto(p, IF ~(streaming /\ connected) THEN "dead"
             ELSE IF pause_left > 0 THEN "loop"
             ELSE "call")
  /\ UNCHANGED << connVars, flagVars, otherVars >>
  /\ Silent

\* `except ConnectionError`: the teardown is scheduled if the streaming flag
\* is still set, and the loop is left.
OnConnectionError == IF streaming THEN Schedule(after, Plain("disconnect"))
                     ELSE after

\* Where the loop goes after send_get_frame ended with `st`.
PollerNext(st) == IF st = "conn" THEN "dead" ELSE "loop"

\* send_get_frame: GET_FRAME written under the lock, or the write raised.
PollerSend(p) ==
  /\ pc[p] = "call"
  /\ \E out \in SendOutcomes :
       /\ out = "conn" => HasRoom
       /\ Send(p, "GET_FRAME", out)
       /\ Goto(p, IF out = "sent" THEN "wait" ELSE PollerNext(out))
       /\ after' = IF out = "conn" THEN OnConnectionError ELSE after
  /\ ConnUnchanged
  /\ UNCHANGED << flagVars, pause_left, deepface_available,
                  raceVars >>

\* send_get_frame: the response read.  A frame (or the error-shaped
\* metadata) goes to _render_frame through root.after; ConnectionError ends
\* the loop; any other exception is reported and the loop goes on.
FrameAnswered(p, o) ==
  /\ o.st = "conn" => HasRoom
  /\ Recv(p, "GET_FRAME", o)
  /\ Goto(p, PollerNext(o.st))
  /\ after' = CASE o.st = "ok" ->
                     Schedule(after, Callback("render", o.meta, o.img))
                [] o.st = "conn" -> OnConnectionError
                [] OTHER -> after

PollerRecv(p) ==
  /\ pc[p] = "wait"
  /\ \E resp \in Responses("GET_FRAME") :
       \E o \in Outcomes(p, "GET_FRAME", resp) : FrameAnswered(p, o)
  /\ ConnUnchanged
  /\ UNCHANGED << flagVars, pause_left, deepface_available,
                  raceVars >>

\* ------------------------------------------------- _race_worker thread

workerFrame ==
  << connVars, flagVars, pc, pause_left, deepface_available,
     after >>

\* A worker that ends when its wait on the queue times out.
WorkerGetEndsOnEmpty ==
  /\ wpc = "get"
  /\ IF race_queue = <<>>
       THEN /\ wpc' = "ended"
            /\ UNCHANGED << wjob, race_queue >>
       ELSE /\ wjob' = Head(race_queue)
            /\ race_queue' = Tail(race_queue)
            /\ wpc' = "got"
  /\ UNCHANGED << race_age, race_result, race_running, sub_age,
                  workerFrame >>
  /\ Silent

\* self._race_queue.get(timeout=1.0) returns a job, or the sentinel None:
\* `break` ends the thread.
WorkerGet ==
  /\ wpc = "get"
  /\ race_queue # <<>>
  /\ wjob' = IF Head(race_queue).poison THEN NoJob ELSE Head(race_queue)
  /\ race_queue' = Tail(race_queue)
  /\ wpc' = IF Head(race_queue).poison THEN "ended" ELSE "got"
  /\ UNCHANGED << race_age, race_result, race_running, sub_age,
                  workerFrame >>
  /\ Silent

\* self._race_running = True
WorkerMarkBusy ==
  /\ wpc = "got"
  /\ race_running' = TRUE
  /\ wpc' = "analyze"
  /\ UNCHANGED << race_queue, race_age, race_result, wjob, sub_age,
                  workerFrame >>
  /\ Silent

\* The label DeepFace.analyze yields for a job.
Label(job) == IF job.stale THEN "stale" ELSE "fresh"

\* DeepFace.analyze returned: self._race_result = label.  Or it raised:
\* `except Exception` hands the text "Race: Error" to _update_race_label,
\* which sets the label widget and leaves _race_result alone.
WorkerAnalyze ==
  /\ wpc = "analyze"
  /\ \E ok \in BOOLEAN :
       /\ race_result' = IF ok THEN Label(wjob) ELSE race_result
       /\ wjob' = [wjob EXCEPT !.failed = ~ok]
  /\ wpc' = "finally"
  /\ UNCHANGED << race_queue, race_age, race_running, sub_age, workerFrame >>
  /\ Silent

\* A worker without the inner try: an exception of the engine ends the
\* thread.
WorkerEndsOnFailure ==
  /\ wpc = "finally"
  /\ race_running' = FALSE
  /\ wjob' = NoJob
  /\ wpc' = IF wjob.failed THEN "ended" ELSE "get"
  /\ UNCHANGED << race_queue, race_age, race_result, sub_age, workerFrame >>
  /\ Silent

\* A worker that clears the busy flag after the assignment of the result
\* and not in a finally clause: a job whose analysis raised leaves it set.
WorkerClearsOnSuccess ==
  /\ wpc = "finally"
  /\ race_running' = wjob.failed
  /\ wjob' = NoJob
  /\ wpc' = "get"
  /\ UNCHANGED << race_queue, race_age, race_result, sub_age, workerFrame >>
  /\ Silent

\* finally: self._race_running = False; the job is dropped.
WorkerFinally ==
  /\ wpc = "finally"
  /\ race_running' = FALSE
  /\ wjob' = NoJob
  /\ wpc' = "get"
  /\ UNCHANGED << race_queue, race_age, race_result, sub_age, workerFrame >>
  /\ Silent

\* ----------------------------------------------------------------- time

\* n seconds pass.
Wait(n) ==
  /\ pause_left' = Max(0, pause_left - n)
  /\ race_age' = Min(LongAgo, race_age + n)
  /\ sub_age' = Min(LongAgo, sub_age + n)
  /\ UNCHANGED << connVars, flagVars, pc, deepface_available, race_queue,
                  race_result, race_running, wpc, wjob, after >>
  /\ Silent

Tick == Wait(1)

\* More than the rate limiter's interval passes.
LongWait == Wait(LongAgo)

\* ------------------------------------------- the reads on their own

readFrame ==
  << connVars, flagVars, pc, pause_left, deepface_available, raceVars,
     after, lastExchange, lastRender >>

\* _read_exact(n): a turn of its loop, or its return.
ReadExact ==
  /\ io.fn = "exact" /\ io.st = "run"
  /\ io' \in IF ExactGoesOn(io) THEN ExactTurns(io) ELSE {ExactReturn(io)}
  /\ UNCHANGED readFrame

\* _read_line(): a turn of its loop.
ReadLine ==
  /\ io.fn = "line" /\ io.st = "run"
  /\ io' = LineTurn(io)
  /\ UNCHANGED readFrame

\* The method ended with the result r of its reads.
Exchanged(c, r) ==
  [c EXCEPT !.st = IF r.st = "eof" THEN EofOutcome(c) ELSE r.st,
            !.pos = r.n, !.meta = r.meta, !.img = r.img]

\* send_get_frame() from `with self._lock` to its return or exception, the
\* lock taken and released.
CallSendGetFrame ==
  /\ io.fn = "get_frame" /\ io.st = "run"
  /\ lock = NoThread
  /\ io' = Exchanged(io, RecvGetFrame(io.src))
  /\ UNCHANGED readFrame

\* send_take_photo() likewise.
CallSendTakePhoto ==
  /\ io.fn = "take_photo" /\ io.st = "run"
  /\ lock = NoThread
  /\ io' = Exchanged(io, RecvTakePhoto(io.src))
  /\ UNCHANGED readFrame

\* --------------------------------------- the render path on its own

\* Python's truth of a value that is None ("none"), a string or absent.
Truthy(v) == v \notin {"none", ""}

\* a or b
Or(a, b) == IF Truthy(a) THEN a ELSE b

\* A _render_frame called on its own with the metadata `meta` (the keys
\* the race display reads: faceDetected, ageDetected, race, raceScore, and
\* whether "faces" holds a box) and an image that Image.open takes or not.
\*   overlay  the race value drawn above each face box ("none": no text)
\*   label    what lbl_race was set to: `kind` names the branch taken
\*            ("kept": no branch, the widget keeps its text), `val` the
\*            race value in the text
Render(meta, decodes) ==
  [fn |-> "render", meta |-> meta, decodes |-> decodes, st |-> "run",
   overlay |-> "none", label |-> [kind |-> "kept", val |-> "none"]]

\* A race value of the server: "race" is missing (None), empty, or a name.
ServerRaces == {"none", "", "server"}

Renders ==
  {Render([faceDetected |-> fd, ageDetected |-> ad, race |-> r,
           raceScore |-> s, faces |-> f], decodes) :
     fd \in BOOLEAN, ad \in BOOLEAN, r \in ServerRaces,
     s \in {"", "score"}, f \in BOOLEAN, decodes \in BOOLEAN}

\* A race display with the preference the other way round.
RaceDisplayServerFirst(cached, meta) == Or(meta.race, cached)

\* race_display = self._race_result or metadata.get("race")
RaceDisplay(cached, meta) == Or(cached, meta.race)

\* The race value in the text drawn above the face boxes: the loop over
\* `faces` is reached when the image was decoded, and the race part is
\* added `if race_display`.
OverlayRace(cached, c) ==
  IF c.decodes /\ c.meta.faces THEN RaceDisplay(cached, c.meta) ELSE "none"

Shown(kind, val) == [kind |-> kind, val |-> val]

\* The branches of _update_info_labels that set lbl_race.
LblRace(cached, running, available, meta) ==
  IF ~(meta.faceDetected /\ meta.ageDetected) THEN Shown("dash", "none")
  ELSE IF Truthy(cached) THEN Shown("cached", cached)
  ELSE IF running THEN Shown("analyzing", "none")
  ELSE IF Truthy(meta.race) THEN Shown("server", meta.race)
  ELSE IF available THEN Shown("waiting", "none")
  ELSE Shown("kept", "none")

\* _render_frame, as far as the race display goes.
RenderRace ==
  /\ io.fn = "render" /\ io.st = "run"
  /\ io' = [io EXCEPT
              !.st = "ok",
              !.overlay = OverlayRace(race_result, io),
              !.label = LblRace(race_result, race_running,
                                deepface_available, io.meta)]
  /\ UNCHANGED readFrame

\* ------------------------------------- the client frame rate on its own

\* The timestamps of a frame loop and the rate the render path computes
\* from them.
\*   now    time.time() at the last poll recorded (whole seconds: two polls
\*          may read the same time)
\*   times  self._frame_times
\*   all    history: every timestamp recorded since _frame_times = []
\*   rate   the rate computed last: a fraction num/den, or NoRate when
\*          lbl_client_fps was left alone
\*   st     "run" | "ok" (the render path has run on `times`)
NoRate == [num |-> 0, den |-> 0]

FpsCall ==
  [fn |-> "fps", now |-> 0, times |-> <<>>, all |-> <<>>, rate |-> NoRate,
   st |-> "run"]

\* A window that keeps the timestamp that is exactly 2 seconds old.
InWindowClosed(now, t) == now - t <= FpsWindow

\* now - t < 2.0
InWindow(now, t) == now - t < FpsWindow

\* [t for t in ts if now - t < 2.0]
RECURSIVE KeepInWindow(_, _)
KeepInWindow(ts, now) ==
  IF ts = <<>> THEN <<>>
  ELSE IF InWindow(now, Head(ts))
    THEN <<Head(ts)>> \o KeepInWindow(Tail(ts), now)
  ELSE KeepInWindow(Tail(ts), now)

\* self._frame_times.append(now) and the filter that follows it.
Recorded(ts, now) == KeepInWindow(Append(ts, now), now)

\* The lines of _frame_loop between send_get_frame and root.after: the time
\* of the poll is recorded.
RecordFrameTime ==
  /\ io.fn = "fps"
  /\ Len(io.all) < MaxPolls
  /\ \E now \in io.now..Min(MaxTime, io.now + MaxGap) :
       io' = [io EXCEPT !.now = now, !.times = Recorded(io.times, now),
                        !.all = Append(io.all, now), !.st = "run"]
  /\ UNCHANGED readFrame

\* cfps = (len(self._frame_times) - 1) / duration, or nothing
Cfps(ts) ==
  IF Len(ts) >= 2
    THEN IF ts[Len(ts)] - ts[1] > 0
           THEN [num |-> Len(ts) - 1, den |-> ts[Len(ts)] - ts[1]]
         ELSE NoRate
  ELSE NoRate

\* _render_frame, as far as the client frame rate goes.
ClientFps ==
  /\ io.fn = "fps" /\ io.st = "run"
  /\ io' = [io EXCEPT !.st = "ok", !.rate = Cfps(io.times)]
  /\ UNCHANGED readFrame

\* ------------------------------------------- the face crop on its own

\* The crop of a submission called on its own: faces[0] and img.size.
\*   rect  (x1, y1, x2, y2) handed to img.crop
Crop(face, size) ==
  [fn |-> "crop", face |-> face, size |-> size, st |-> "run",
   rect |-> <<0, 0, 0, 0>>]

BoxCorners == {-1, 0, MaxCorner}
BoxSides == {-3, 0, 1, 5, MaxSide}
ImageSides == {1, 4, MaxImage}

Crops ==
  {Crop([x |-> x, y |-> y, w |-> w, h |-> h], [w |-> ow, h |-> oh]) :
     x \in BoxCorners, y \in BoxCorners, w \in BoxSides, h \in BoxSides,
     ow \in ImageSides, oh \in ImageSides}

\* int(a / b) for b > 0: int() drops the fraction, towards zero.
IntDiv(a, b) == IF a >= 0 THEN a \div b ELSE -((-a) \div b)

\* pad = int(min(w, h) * 0.2)
Pad(w, h) == IntDiv(Min(w, h) * 2, 10)

\* A crop rectangle that is padded and not clamped.
CropRectUnclamped(f, size) ==
  << f.x - Pad(f.w, f.h), f.y - Pad(f.w, f.h),
     f.x + f.w + Pad(f.w, f.h), f.y + f.h + Pad(f.w, f.h) >>

\* x1, y1, x2, y2 of _render_frame
CropRect(f, size) ==
  << Max(0, f.x - Pad(f.w, f.h)), Max(0, f.y - Pad(f.w, f.h)),
     Min(size.w, f.x + f.w + Pad(f.w, f.h)),
     Min(size.h, f.y + f.h + Pad(f.w, f.h)) >>

\* _render_frame, as far as the crop rectangle goes.
FaceCrop ==
  /\ io.fn = "crop" /\ io.st = "run"
  /\ io' = [io EXCEPT !.st = "ok", !.rect = CropRect(io.face, io.size)]
  /\ UNCHANGED readFrame

\* ------------------------------------------------------ specifications

\* Every step of the program.
Next ==
  \/ Connect
  \/ UserDisconnect
  \/ MainJoined
  \/ MainQuitSend
  \/ MainQuitRecv
  \/ RunAfter
  \/ UserToggleTracking
  \/ ToggleBegin
  \/ ToggleJoined
  \/ ToggleSend
  \/ ToggleStopRecv
  \/ ToggleStartRecv
  \/ ToggleSetTracking
  \/ ToggleSetStreaming
  \/ UserTogglePfagr
  \/ PfagrSend
  \/ PfagrRecv
  \/ UserTakePhoto
  \/ PhotoBegin
  \/ PhotoSend
  \/ PhotoRecv
  \/ \E p \in Pollers : PollerIter(p)
  \/ \E p \in Pollers : PollerSend(p)
  \/ \E p \in Pollers : PollerRecv(p)
  \/ WorkerGet
  \/ WorkerMarkBusy
  \/ WorkerAnalyze
  \/ WorkerFinally
  \/ Tick

Spec == Init /\ [][Next]_vars

\* The claims are checked on sessions, each a part of Next with the inputs
\* its claims are about.

\* The button reads "Start Tracking": the click starts a frame loop.
UserStartTracking == ~tracking /\ UserToggleTracking

\* A session that takes photos while frames are polled: the user connects,
\* starts tracking and takes photos; the server and the network may produce
\* one fault.  The teardown runs when a poller asks for it.
NextPhoto ==
  \/ Connect
  \/ MainJoined
  \/ MainQuitSend
  \/ MainQuitRecv
  \/ RunAfter
  \/ UserStartTracking
  \/ ToggleBegin
  \/ ToggleSend
  \/ ToggleStartRecv
  \/ ToggleSetTracking
  \/ ToggleSetStreaming
  \/ UserTakePhoto
  \/ PhotoBegin
  \/ PhotoSend
  \/ PhotoRecv
  \/ \E p \in Pollers : PollerIter(p)
  \/ \E p \in Pollers : PollerSend(p)
  \/ \E p \in Pollers : PollerRecv(p)
  \/ Tick

InitPhoto == Init /\ ~deepface_available /\ faults > 0

SpecPhoto == InitPhoto /\ [][NextPhoto]_vars

\* A session with the analysis engine installed and a faultless server: the
\* user connects, starts tracking and disconnects; rendered frames feed the
\* worker.
NextRace ==
  \/ Connect
  \/ UserDisconnect
  \/ MainJoined
  \/ MainQuitSend
  \/ MainQuitRecv
  \/ RunAfter
  \/ UserStartTracking
  \/ ToggleBegin
  \/ ToggleSend
  \/ ToggleStartRecv
  \/ ToggleSetTracking
  \/ ToggleSetStreaming
  \/ \E p \in Pollers : PollerIter(p)
  \/ \E p \in Pollers : PollerSend(p)
  \/ \E p \in Pollers : PollerRecv(p)
  \/ WorkerGet
  \/ WorkerMarkBusy
  \/ WorkerAnalyze
  \/ WorkerFinally
  \/ LongWait

InitRace == Init /\ deepface_available /\ faults = 0

SpecRace == InitRace /\ [][NextRace]_vars

\* A session in which tracking is started and stopped and the user may
\* disconnect at any moment; the server and the network may produce one
\* fault.
NextStop ==
  \/ Connect
  \/ UserDisconnect
  \/ MainJoined
  \/ MainQuitSend
  \/ MainQuitRecv
  \/ RunAfter
  \/ UserToggleTracking
  \/ ToggleBegin
  \/ ToggleJoined
  \/ ToggleSend
  \/ ToggleStopRecv
  \/ ToggleStartRecv
  \/ ToggleSetTracking
  \/ ToggleSetStreaming
  \/ \E p \in Pollers : PollerIter(p)
  \/ \E p \in Pollers : PollerSend(p)
  \/ \E p \in Pollers : PollerRecv(p)

InitStop == Init /\ ~deepface_available /\ faults > 0

SpecStop == InitStop /\ [][NextStop]_vars

\* The steps of each thread.  A thread that can take a step takes one in
\* the end: the main thread returns to Tk's event loop, which runs what
\* root.after queued, and the operating system schedules every thread.  The
\* user owes no click.
MainStep == MainJoined \/ MainQuitSend \/ MainQuitRecv \/ RunAfter

ToggleStep ==
  \/ ToggleBegin
  \/ ToggleJoined
  \/ ToggleSend
  \/ ToggleStopRecv
  \/ ToggleStartRecv
  \/ ToggleSetTracking
  \/ ToggleSetStreaming

PollerStep(p) == PollerIter(p) \/ PollerSend(p) \/ PollerRecv(p)

FairStop ==
  /\ SpecStop
  /\ WF_vars(MainStep)
  /\ WF_vars(ToggleStep)
  /\ \A p \in Pollers : WF_vars(PollerStep(p))

\* A session on a faultless server in which tracking is started and
\* stopped and photos are taken, on the clock.
NextPolling ==
  \/ Connect
  \/ RunAfter
  \/ UserToggleTracking
  \/ ToggleBegin
  \/ ToggleJoined
  \/ ToggleSend
  \/ ToggleStopRecv
  \/ ToggleStartRecv
  \/ ToggleSetTracking
  \/ ToggleSetStreaming
  \/ UserTakePhoto
  \/ PhotoBegin
  \/ PhotoSend
  \/ PhotoRecv
  \/ \E p \in Pollers : PollerIter(p)
  \/ \E p \in Pollers : PollerSend(p)
  \/ \E p \in Pollers : PollerRecv(p)
  \/ Tick

InitPolling == Init /\ ~deepface_available /\ faults = 0

SpecPolling == InitPolling /\ [][NextPolling]_vars

PhotoStep == PhotoBegin \/ PhotoSend \/ PhotoRecv

\* Every thread that can take a step takes one in the end, and a thread
\* that waits for the transport lock gets it in the end, however often
\* other threads take it in between; time passes.  The user owes no click.
FairPolling ==
  /\ SpecPolling
  /\ WF_vars(Tick)
  /\ SF_vars(RunAfter)
  /\ SF_vars(ToggleStep)
  /\ SF_vars(PhotoStep)
  /\ \A p \in Pollers : SF_vars(PollerStep(p))

\* The thread inside `with self._lock` reads its response to the end: the
\* response arrives, the peer closes, or the socket's timeout ends the read.
LockHolderStep ==
  /\ lock # NoThread
  /\ lock' = NoThread
  /\ \/ MainQuitRecv
     \/ ToggleStartRecv
     \/ PhotoRecv
     \/ \E p \in Pollers : PollerRecv(p)

\* A session that uses every locked operation: START_TRACKING, GET_FRAME,
\* TAKE_PHOTO and, in the teardown a poller asks for, QUIT; the server and
\* the network may produce one fault.  The clock moves past the pause
\* window in one step.
NextLock ==
  \/ Connect
  \/ MainJoined
  \/ MainQuitSend
  \/ MainQuitRecv
  \/ RunAfter
  \/ UserStartTracking
  \/ ToggleBegin
  \/ ToggleSend
  \/ ToggleStartRecv
  \/ ToggleSetTracking
  \/ ToggleSetStreaming
  \/ UserTakePhoto
  \/ PhotoBegin
  \/ PhotoSend
  \/ PhotoRecv
  \/ \E p \in Pollers : PollerIter(p)
  \/ \E p \in Pollers : PollerSend(p)
  \/ \E p \in Pollers : PollerRecv(p)
  \/ LongWait

SpecLock == InitPhoto /\ [][NextLock]_vars

\* The read of the thread that holds the transport lock ends.
FairLock == SpecLock /\ WF_vars(LockHolderStep)

\* A session with the analysis engine installed and a faultless server, on
\* the clock: tracking is started and stopped, rendered frames feed the
\* worker, the seconds tick.
NextAnalysis ==
  \/ Connect
  \/ RunAfter
  \/ UserToggleTracking
  \/ ToggleBegin
  \/ ToggleJoined
  \/ ToggleSend
  \/ ToggleStopRecv
  \/ ToggleStartRecv
  \/ ToggleSetTracking
  \/ ToggleSetStreaming
  \/ \E p \in Pollers : PollerIter(p)
  \/ \E p \in Pollers : PollerSend(p)
  \/ \E p \in Pollers : PollerRecv(p)
  \/ WorkerGet
  \/ WorkerMarkBusy
  \/ WorkerAnalyze
  \/ WorkerFinally
  \/ Tick

InitAnalysis == Init /\ deepface_available /\ faults = 0

SpecAnalysis == InitAnalysis /\ [][NextAnalysis]_vars

\* A run with or without the analysis engine on a faultless server:
\* tracking is started and stopped, the user disconnects and connects
\* again, rendered frames feed the worker.
NextWorker ==
  \/ Connect
  \/ UserDisconnect
  \/ MainJoined
  \/ MainQuitSend
  \/ MainQuitRecv
  \/ RunAfter
  \/ UserToggleTracking
  \/ ToggleBegin
  \/ ToggleJoined
  \/ ToggleSend
  \/ ToggleStopRecv
  \/ ToggleStartRecv
  \/ ToggleSetTracking
  \/ ToggleSetStreaming
  \/ \E p \in Pollers : PollerIter(p)
  \/ \E p \in Pollers : PollerSend(p)
  \/ \E p \in Pollers : PollerRecv(p)
  \/ WorkerGet
  \/ WorkerMarkBusy
  \/ WorkerAnalyze
  \/ WorkerFinally
  \/ LongWait

InitWorker == Init /\ faults = 0

SpecWorker == InitWorker /\ [][NextWorker]_vars

\* A session in which tracking is started, the secondary detection is
\* switched on and off and the user may disconnect at any moment; the server
\* and the network may produce one fault.
NextToggles ==
  \/ Connect
  \/ UserDisconnect
  \/ MainJoined
  \/ MainQuitSend
  \/ MainQuitRecv
  \/ RunAfter
  \/ UserStartTracking
  \/ ToggleBegin
  \/ ToggleSend
  \/ ToggleStartRecv
  \/ ToggleSetTracking
  \/ ToggleSetStreaming
  \/ UserTogglePfagr
  \/ PfagrSend
  \/ PfagrRecv
  \/ \E p \in Pollers : PollerIter(p)
  \/ \E p \in Pollers : PollerSend(p)
  \/ \E p \in Pollers : PollerRecv(p)

InitToggles == Init /\ ~deepface_available /\ faults > 0

SpecToggles == InitToggles /\ [][NextToggles]_vars

\* The worker is a thread of its own and the engine's call ends, by
\* returning or by raising.
WorkerStep == WorkerGet \/ WorkerMarkBusy \/ WorkerAnalyze \/ WorkerFinally

FairAnalysis == SpecAnalysis /\ WF_vars(WorkerStep)

\* The join of the frame thread returns because the thread has ended.
PromptJoin == frame_thread = NoThread \/ pc[frame_thread] = "dead"

\* A run with or without the analysis engine, with every interleaving of
\* the worker with session start, stop, reset, disconnect and reconnect, in which the
\* frame thread ends within the 3 s of each join and a start finds the
\* earlier frame thread ended; the worker is a thread of its own and each
\* call of the engine ends.
MainJoinedPromptly == MainJoined /\ PromptJoin

ToggleJoinedPromptly == ToggleJoined /\ PromptJoin

UserToggleTrackingStopped == UserToggleTracking /\ (tracking \/ PromptJoin)

ToggleSetStreamingFirst == ToggleSetStreaming /\ frame_thread' = Poller(1)

NextJobs ==
  \/ Connect
  \/ UserDisconnect
  \/ MainJoinedPromptly
  \/ MainQuitSend
  \/ MainQuitRecv
  \/ RunAfter
  \/ UserToggleTrackingStopped
  \/ ToggleBegin
  \/ ToggleJoinedPromptly
  \/ ToggleSend
  \/ ToggleStopRecv
  \/ ToggleStartRecv
  \/ ToggleSetTracking
  \/ ToggleSetStreamingFirst
  \/ PollerIter(Poller(1))
  \/ PollerSend(Poller(1))
  \/ PollerRecv(Poller(1))
  \/ WorkerGet
  \/ WorkerMarkBusy
  \/ WorkerAnalyze
  \/ WorkerFinally
  \/ LongWait

SpecJobs == InitWorker /\ [][NextJobs]_vars

FairJobs == SpecJobs /\ WF_vars(WorkerStep)

\* The read primitives and the two framed requests, each called on its own
\* on a connected SotaConnection, for every input of Calls and Exchanges.
NextRead ==
  \/ ReadExact
  \/ ReadLine
  \/ CallSendGetFrame
  \/ CallSendTakePhoto

InitRead ==
  /\ Constructed /\ ~deepface_available /\ faults = 0
  /\ sock = "open" /\ connected = TRUE
  /\ io \in Calls \cup Exchanges

SpecRead == InitRead /\ [][NextRead]_vars

\* The render path called on its own, for every metadata of Renders, in
\* every state of the result cache: absent or a label (with the engine),
\* the worker busy or not; a frame loop that records the times of its
\* polls, with the rate computed after any of them; and the crop rectangle
\* for every face box and image size of Crops.
NextRender ==
  \/ RenderRace
  \/ RecordFrameTime
  \/ ClientFps
  \/ FaceCrop

InitRender ==
  /\ ConstructedSession /\ faults = 0
  /\ sock = "open" /\ connected = TRUE
  /\ race_result \in IF deepface_available THEN {"none", "fresh"}
                     ELSE {"none"}
  /\ race_running \in IF deepface_available THEN BOOLEAN ELSE {FALSE}
  /\ io \in Renders \cup {FpsCall} \cup Crops

SpecRender == InitRender /\ [][NextRender]_vars

\* ------------------------------------------------------------- claims

\* C1: every request/response cycle reads only bytes that answer its own
\* command: the lock is held until the whole response is read, so nothing
\* of one thread's response is left for another thread's cycle to read.
C1_ResponsesNeverInterleave == ~lastExchange.foreign

\* C2: a FRAME response whose metadata is not valid JSON costs that one
\* poll only: the loop goes on and nothing of the failed response is left
\* unread on the connection.
C2_BadJsonLeavesNothingUnread ==
  (lastExchange.st = "exc" /\ lastExchange.in = "json")
    => /\ pc[lastExchange.by] = "loop"
       /\ stream = <<>>

\* C3: at most one analysis job is in flight: the jobs pending in the queue
\* and the job the worker has dequeued and not finished are never more than
\* one.
C3_AtMostOneJobInFlight ==
  Len(race_queue) + (IF wjob.held THEN 1 ELSE 0) <= 1

\* C4: the job queue holds 0 or 1 jobs in every reachable state, and a
\* _render_frame that meets an occupied queue with a frame that has a face
\* completes its step leaving the queue as it was.
C4_QueueDepthAtMostOne ==
  /\ [](Len(race_queue) \in {0, 1})
  /\ [][lastRender' = "full"
          => (Len(race_queue) = 1 /\ race_queue' = race_queue)]_vars

\* C4, witness: a _render_frame has just met an occupied queue.
C4_FullQueueMet == lastRender = "full" /\ Len(race_queue) = 1

\* C5: no GET_FRAME is written while the pause deadline lies ahead.
C5_NoGetFrameDuringPause ==
  [][\A p \in Pollers :
       (pc[p] = "call" /\ pc'[p] = "wait") => pause_left = 0]_vars

\* C6: the label of a job that was pending or in process when
\* _clear_info_labels ran never becomes the cached result.
C6_NoStaleLabelAfterReset == race_result # "stale"

\* C7: once a _read_exact has met the peer's close, no command is written
\* on that connection any more.
C7_NoCommandAfterLoss ==
  [][(lost /\ lost' /\ lock = NoThread) => lock' = NoThread]_vars

\* C8: a ConnectionError out of send_get_frame ends the frame loop in that
\* iteration and schedules the controller's teardown _disconnect.
C8_ConnectionErrorNotifies ==
  [][(lastExchange'.st = "conn" /\ lastExchange'.by \in Pollers)
       => /\ pc'[lastExchange'.by] = "dead"
          /\ after' = Append(after, Plain("disconnect"))]_vars

\* C9: after a frame poll failed with ConnectionError the system reaches
\* the disconnected state.
C9_LossLeadsToDisconnected ==
  (lastExchange.st = "conn" /\ lastExchange.by \in Pollers)
    ~> (~connected /\ ~streaming /\ ~tracking)

\* C10: a read timeout in a frame poll ends the poll loop.
C10_TimeoutEndsPolling ==
  (lastExchange.st = "timeout" /\ lastExchange.by \in Pollers)
    => pc[lastExchange.by] = "dead"

\* C11: an exception of the classification engine does not end the worker:
\* after it the worker is back waiting on the queue with the busy flag
\* false, and a job that is in the queue gets dequeued and processed.
C11_WorkerSurvivesFailure ==
  /\ wjob.failed ~> (wpc = "get" /\ ~race_running /\ ~wjob.held)
  /\ (race_queue # <<>>) ~> (wpc = "analyze")

\* C11, witness: the engine has raised for the job the worker holds.
C11_EngineRaised == wpc = "finally" /\ wjob.failed /\ race_running

\* C12: when the engine has raised for a job, the published result the
\* render path reads (_race_result) is the explicit error label.
C12_ErrorLabelPublished == wjob.failed => race_result = "error"

\* C13 as stated: any two consecutive submissions are more than 5 seconds
\* apart, whatever stops, resets and restarts lie between them.
C13_SubmissionsFarApart ==
  [][lastRender' = "put" => sub_age > RaceInterval]_vars

\* _clear_info_labels has run since the last submission: _race_last is 0.0
\* and no longer the time of that submission.
ResetSinceSubmission == race_age # sub_age

\* C13, amended: two consecutive submissions with no _clear_info_labels
\* between them are more than 5 seconds apart; a submission sets the
\* limiter's timestamp, a reset re-arms it.
C13_FarApartBetweenResets ==
  [][lastRender' = "put"
       => /\ sub_age > RaceInterval \/ ResetSinceSubmission
          /\ race_age' = 0 /\ sub_age' = 0]_vars

\* C13, witness: a job is submitted while the label of an earlier job of
\* the same session (submitted after the last reset, none since) is cached.
C13_SecondSubmission == lastRender = "put" /\ race_result = "fresh"

\* C14: _read_exact(n), n >= 0, returns exactly the next n bytes of the
\* stream, in order, however sock.recv cuts them up, and raises
\* ConnectionError when sock.recv returns b"" before n bytes are there; it
\* agrees with the operator _read_exact that the requests are read with.
C14_ReadExactAllOrError ==
  io.fn = "exact" =>
    /\ io.st = "ok" =>
          /\ Len(io.val) = io.n
          /\ io.val = SubSeq(io.src, 1, io.n)
          /\ io.pos = io.n
          /\ _read_exact(io.src, io.n).st = "ok"
          /\ _read_exact(io.src, io.n).val = io.val
    /\ io.st = "conn" =>
          /\ Len(io.buf) < io.n
          /\ io.pos = Len(io.src) /\ io.end = "close"
          /\ _read_exact(io.src, io.n).st = "eof"
    /\ (io.end = "close" /\ Len(io.src) < io.n) => io.st \in {"run", "conn"}

\* C14, witness: n > 1 bytes returned that came in more than one chunk.
C14_ReturnedFromChunks ==
  io.fn = "exact" /\ io.st = "ok" /\ io.n > 1 /\ io.reads > 1

\* C15: for a response whose header has the FRAME marker, send_get_frame
\* reads exactly the header line, 4 bytes, the metadata, 4 bytes and the
\* image, no byte of what follows, returns the parsed metadata, and returns
\* the image when the second length is nonzero and None when it is zero.
C15_FrameReadWhole ==
  (io.fn = "get_frame" /\ io.st # "run"
     /\ StartsWith(io.sent.hdr, FRAME_HDR) /\ io.sent.len >= 0)
    => /\ io.st = "ok"
       /\ io.pos = Len(FrameBytes(io.sent))
       /\ io.meta = JsonLoads(io.sent.meta)
       /\ io.img = io.sent.img
       /\ (io.img = <<>>) = (io.sent.len = 0)

PhotoExpected(a, nonempty) ==
  IF StartsWith(a.hdr, PHOTO_HDR)
    THEN IF nonempty THEN [pos |-> Len(a.hdr) + 5 + Len(a.img), img |-> a.img]
         ELSE [pos |-> Len(a.hdr) + 5, img |-> <<>>]
  ELSE [pos |-> Len(a.hdr) + 1, img |-> <<>>]

\* C17 as stated: send_take_photo returns the payload exactly when the
\* header has the PHOTO marker and the length is nonzero, and None
\* otherwise, having read the header line, the length and the payload and
\* nothing else.
C17_PhotoIffNonzero ==
  (io.fn = "take_photo" /\ io.st # "run")
    => /\ io.st = "ok"
       /\ (io.img # <<>>)
            = (StartsWith(io.sent.hdr, PHOTO_HDR) /\ io.sent.len # 0)
       /\ io.pos = PhotoExpected(io.sent, io.sent.len # 0).pos
       /\ io.img = PhotoExpected(io.sent, io.sent.len # 0).img

\* C17, amended: the payload is returned exactly when the header has the
\* PHOTO marker and the length, a signed 32-bit integer, is positive.
C17_PhotoIffPositive ==
  (io.fn = "take_photo" /\ io.st # "run")
    => /\ io.st = "ok"
       /\ (io.img # <<>>)
            = (StartsWith(io.sent.hdr, PHOTO_HDR) /\ io.sent.len > 0)
       /\ io.pos = PhotoExpected(io.sent, io.sent.len > 0).pos
       /\ io.img = PhotoExpected(io.sent, io.sent.len > 0).img

\* C17, witness: a PHOTO response with a negative length was answered with
\* None.
C17_NegativeLengthAnswered ==
  /\ io.fn = "take_photo" /\ io.st = "ok"
  /\ io.sent.hdr = PHOTO_HDR /\ io.sent.len < 0 /\ io.img = <<>>

\* The index of the first newline of s, or 0.
FirstNewline(s) ==
  IF \E i \in 1..Len(s) : s[i] = NL
    THEN CHOOSE i \in 1..Len(s) : s[i] = NL /\ \A k \in 1..(i - 1) : s[k] # NL
  ELSE 0

\* C18: _read_line returns the (decoded) bytes before the first newline,
\* having read that newline and nothing after it; when the peer closes
\* before a newline came it raises ConnectionError, whether or not bytes of
\* the line were received; it never returns a line without its newline.
C18_LineOrConnectionError ==
  io.fn = "line" =>
    /\ io.st = "ok" =>
          /\ FirstNewline(io.src) > 0
          /\ io.pos = FirstNewline(io.src)
          /\ io.val = DecodeReplace(SubSeq(io.src, 1, io.pos - 1))
          /\ _read_line(io.src).val = io.val
          /\ _read_line(io.src).n = io.pos
    /\ io.st = "conn" =>
          /\ FirstNewline(io.src) = 0
          /\ io.pos = Len(io.src) /\ io.end = "close"
          /\ _read_line(io.src).st = "eof"
    /\ (io.end = "close" /\ FirstNewline(io.src) = 0)
          => io.st \in {"run", "conn"}

\* C18, witness: the peer closed after bytes of a line and before its
\* newline, and ConnectionError was raised.
C18_ClosedInsideLine ==
  io.fn = "line" /\ io.st = "conn" /\ io.buf # <<>>

\* conn.disconnect is running on the main thread.
InDisconnect == pc[Main] \in {"d_quit", "d_wait"}

\* C19: disconnect never raises: every way it ends, whatever the QUIT
\* handshake did, is a normal return with the socket closed and unset and
\* connected = False.
C19_DisconnectAlwaysReturns ==
  [][(InDisconnect /\ pc'[Main] # pc[Main])
       => \/ pc[Main] = "d_quit" /\ pc'[Main] = "d_wait" /\ lock' = Main
          \/ pc'[Main] = "idle" /\ sock' = "none" /\ ~connected']_vars

\* C19, witness: disconnect has returned after a QUIT handshake that
\* failed (the write raised, the peer had closed, or the read timed out).
C19_ReturnedAfterFailedQuit ==
  /\ lastExchange.by = Main
  /\ lastExchange.st \in {"conn", "timeout", "exc"}
  /\ pc[Main] = "idle" /\ sock = "none" /\ ~connected

\* C20: when the join of _disconnect has timed out on a poller that is
\* blocked in its read, conn.disconnect goes on to close the connection
\* without waiting for that read.
C20_CloseDoesNotWaitForRead ==
  (pc[Main] = "d_quit" /\ sock = "open" /\ ~streaming
     /\ frame_thread \in Pollers /\ lock = frame_thread
     /\ pc[frame_thread] = "wait")
    => ENABLED MainQuitSend

\* The pollers that are inside the loop on their way to, or in, a GET_FRAME
\* exchange: the loop test passed and the pause test let them through.
Polling == {p \in Pollers : pc[p] \in {"call", "wait"}}

\* C22: at most one frame loop issues GET_FRAME on the connection at any
\* time, whatever starts, stops, disconnects and connects came before and
\* whether or not a join timed out.
C22_OnePollerAtATime == Cardinality(Polling) <= 1

\* C21: once the streaming flag is false, every frame loop that is still
\* running exits in the end (every read of the model returns, with data,
\* an error or a timeout).
C21_StopEndsPoller ==
  \A p \in Pollers : (~streaming /\ pc[p] # "dead") ~> (pc[p] = "dead")

\* The same for a flag that stays false: the loop exits unless the flag is
\* set again before the loop tests it.
PollerExitsUnlessRestarted ==
  \A p \in Pollers :
    (~streaming /\ pc[p] # "dead") ~> (pc[p] = "dead" \/ streaming)

\* The worker thread is alive: it was started and has not left its loop.
WorkerAlive == wpc \in {"get", "got", "analyze", "finally"}

\* C23: with the engine available the one worker that __init__ started is
\* alive in every state, whatever starts, stops, resets, disconnects and
\* reconnects happened (it would end only on the sentinel None, which
\* nothing enqueues); without the engine there is no worker.
C23_OneWorkerForTheRun ==
  /\ deepface_available => WorkerAlive
  /\ ~deepface_available => wpc = "absent"
  /\ \A i \in 1..Len(race_queue) : ~race_queue[i].poison

\* C23, witness: the worker is classifying a job of a session that has
\* been ended by a disconnect since.
C23_WorkerOutlivesSession ==
  wpc = "analyze" /\ wjob.stale /\ ~connected /\ sock = "none"

\* _disconnect is running on the main thread.
InEndSession == pc[Main] \in {"d_join", "d_quit", "d_wait"}

\* C24: _disconnect clears the flags, then waits (bounded) for the poller,
\* then writes QUIT if self.sock is set, then clears the cached result; at
\* its return streaming, tracking and connected are false and the cache is
\* absent.
C24_EndSessionOrderAndOutcome ==
  [][/\ (pc[Main] = "idle" /\ pc'[Main] # "idle")
          => (pc'[Main] = "d_join" /\ ~streaming' /\ ~tracking')
     /\ (pc[Main] = "d_join" /\ pc'[Main] # "d_join")
          => (pc'[Main] = "d_quit" /\ lock' = lock /\ Joined(TRUE))
     /\ (pc'[Main] = "d_wait" /\ pc[Main] # "d_wait")
          => (pc[Main] = "d_quit" /\ sock # "none" /\ lock' = Main)
     /\ (InEndSession /\ pc'[Main] = "idle")
          => (/\ ~streaming' /\ ~tracking' /\ ~connected'
              /\ race_result' = "none")]_vars

\* The fields of the session as __init__ leaves them: tracking and
\* streaming False, _photo_pause_until not ahead, _race_last = 0.0.
SessionInitial ==
  ~tracking /\ ~streaming /\ pause_left = 0 /\ race_age = LongAgo

\* The step is the _clear_info_labels that a stop of tracking scheduled.
ClearRuns ==
  /\ pc[Main] = "idle" /\ after # <<>> /\ Head(after).cb = "clear"
  /\ after' = Tail(after)

\* C25: when _disconnect returns, and when the reset that ends a tracking
\* session has run, tracking and streaming are false, no pause is pending
\* and the rate limiter's timestamp is cleared.
C25_SessionStateReset ==
  [][((InEndSession /\ pc'[Main] = "idle") \/ ClearRuns)
       => SessionInitial']_vars

\* C26: when the cache holds a label, every race value the render shows is
\* that label: the overlay of a decoded frame with a face box shows it, and
\* lbl_race shows it whenever a race is shown at all (a face with its age
\* detected); a race value of the server is shown, in the overlay or in
\* lbl_race, only when the cache is absent.
C26_CachedLabelPreferred ==
  (io.fn = "render" /\ io.st = "ok") =>
    /\ Truthy(race_result) =>
         /\ io.overlay \in {"none", race_result}
         /\ (io.decodes /\ io.meta.faces) => io.overlay = race_result
         /\ io.label \in {Shown("dash", "none"), Shown("cached", race_result)}
         /\ (io.meta.faceDetected /\ io.meta.ageDetected)
              => io.label = Shown("cached", race_result)
    /\ (io.overlay = "server" \/ io.label.kind = "server")
         => race_result = "none"

\* C26, witness: a frame whose metadata carries a race of the server was
\* rendered while the cache held a label, and both places show the label.
C26_CachedShownOverServer ==
  /\ io.fn = "render" /\ io.st = "ok"
  /\ io.meta.race = "server" /\ race_result = "fresh"
  /\ io.overlay = "fresh" /\ io.label = Shown("cached", "fresh")

\* The recorded timestamps that are less than 2 seconds older than the one
\* recorded last.
Recent(c) == {i \in 1..Len(c.all) : c.now - c.all[i] < 2}

\* The oldest of them.
OldestRecent(c) == c.all[CHOOSE i \in Recent(c) : \A j \in Recent(c) : i <= j]

ConnectFailed == lastExchange.in \in {"connect_refused", "connect_timeout"}

\* C28 as stated: a connect that is refused and a connect that times out
\* both fail with ConnectionError, and leave connected = False.
C28_ConnectFailsWithConnectionError ==
  ConnectFailed => (lastExchange.st = "conn" /\ ~connected)

\* C28, amended: a refused connect fails with ConnectionError
\* (ConnectionRefusedError), a connect that times out with socket.timeout,
\* which is not a ConnectionError; both leave connected = False, and
\* self.sock set to the socket that did not connect.
C28_ConnectFailsByCause ==
  ConnectFailed =>
    /\ lastExchange.in = "connect_refused" => lastExchange.st = "conn"
    /\ lastExchange.in = "connect_timeout" => lastExchange.st = "timeout"
    /\ ~connected /\ sock = "dead"

\* C28, witness: a connect has timed out.
C28_ConnectTimedOut ==
  /\ lastExchange.in = "connect_timeout" /\ lastExchange.st = "timeout"
  /\ ~connected

\* The values of _race_result that are whole: None, or a label as the
\* worker formats it before it assigns it.
WholeResults == {"none"} \cup {Label(job) : job \in {NewJob, [NewJob EXCEPT !.stale = TRUE]}}

\* A _render_frame is the next callback of the Tk main thread.
RenderIsNext ==
  pc[Main] = "idle" /\ after # <<>> /\ Head(after).cb = "render"

\* C29: in every state the cache holds None or one whole label, so that is
\* what any read of it returns; and a _render_frame that is due can run
\* whatever the worker is doing: it never waits for the worker.
C29_WholeValueNoWaiting ==
  /\ race_result \in WholeResults
  /\ RenderIsNext => ENABLED RunAfter

\* C29, witness: a _render_frame has run while the worker was classifying
\* and the cache held the label of an earlier job.
C29_RenderedWhileClassifying ==
  lastRender # "none" /\ wpc = "analyze" /\ race_result = "fresh"

\* The rectangle of a box padded by `pad` on each side and clamped to the
\* image.
PaddedClamped(f, size, pad) ==
  << Max(0, f.x - pad), Max(0, f.y - pad),
     Min(size.w, f.x + f.w + pad), Min(size.h, f.y + f.h + pad) >>

\* The rectangle lies inside the image on the four sides the clamps guard.
Clamped(rect, size) ==
  0 <= rect[1] /\ 0 <= rect[2] /\ rect[3] <= size.w /\ rect[4] <= size.h

\* C30 as stated: the crop rectangle is the first face box padded by
\* floor(0.2 * min(w, h)) and clamped, for every box and image size.
C30_CropPaddedByFloor ==
  (io.fn = "crop" /\ io.st = "ok") =>
    /\ io.rect = PaddedClamped(io.face, io.size,
                               (2 * Min(io.face.w, io.face.h)) \div 10)
    /\ Clamped(io.rect, io.size)

\* 0.2 * min(w, h) with its fraction dropped: rounded towards zero.
Truncated(m) == IF m >= 0 THEN (2 * m) \div 10 ELSE -((2 * (-m)) \div 10)

\* C30, amended: the pad is 0.2 * min(w, h) rounded towards zero (its
\* floor when w and h are not negative); the rectangle is the box padded by
\* it and clamped, so 0 <= x1, 0 <= y1, x2 <= imageWidth, y2 <= imageHeight.
C30_CropPaddedByTruncation ==
  (io.fn = "crop" /\ io.st = "ok") =>
    /\ io.rect = PaddedClamped(io.face, io.size,
                               Truncated(Min(io.face.w, io.face.h)))
    /\ Clamped(io.rect, io.size)

\* C30, witness: the rectangle of a box that reaches over the image on the
\* left, at the top, on the right and at the bottom, with a pad of 1.
C30_ClampedOnAllSides ==
  /\ io.fn = "crop" /\ io.st = "ok"
  /\ io.face = [x |-> -1, y |-> -1, w |-> 5, h |-> 5]
  /\ io.size = [w |-> 4, h |-> 4]
  /\ io.rect = <<0, 0, 4, 4>>

\* A poller writes GET_FRAME in this step.
GetFrameWritten(p) == pc[p] = "call" /\ pc'[p] = "wait"

\* A START_TRACKING exchange has completed and no stopTracking has
\* completed since: the response line was received (the thread is about to
\* set its flags) or tracking is set, which STOP_TRACKING's answer clears.
StartedNotStopped ==
  tracking \/ pc[Toggle] \in {"set_tracking", "set_streaming"}

\* C31: stopTracking clears streaming and waits for the poller before it
\* writes STOP_TRACKING; no GET_FRAME is written before the first
\* START_TRACKING response of a session, nor between a completed
\* stopTracking and the next completed START_TRACKING exchange.
C31_NoGetFrameOutsideTracking ==
  /\ [](pc[Toggle] \in {"stop_join", "stop_call", "stop_wait"} => ~streaming)
  /\ [][pc'[Toggle] = "stop_call" => pc[Toggle] \in {"stop_join", "stop_call"}]_vars
  /\ [][\A p \in Pollers : GetFrameWritten(p) => StartedNotStopped]_vars

\* C32: in every reachable state streaming = true implies tracking = true,
\* in every interleaving of the toggle thread with _disconnect.
C32_StreamingImpliesTracking == streaming => tracking

\* _disconnect has completed and no connect has happened since.
Disconnected == sock = "none" /\ ~connected /\ pc[Main] = "idle"

\* C33: whenever _disconnect has completed and no connect has happened
\* since, tracking and streaming are false and no poller has a GET_FRAME in
\* flight, also when a toggle thread runs the rest of a start after the
\* disconnect.
C33_DisconnectedMeansStopped ==
  Disconnected =>
    /\ ~tracking /\ ~streaming
    /\ \A p \in Pollers : pc[p] # "wait"

\* The step completes an exchange of thread t: answered, or raised.
Answered(t) == lastExchange'.by = t /\ lastExchange'.st = "ok"
Raised(t) == lastExchange'.by = t /\ lastExchange'.st \notin {"ok", "none"}

\* The first statements of _disconnect run in this step.
TeardownBegins == pc[Main] # "d_join" /\ pc'[Main] = "d_join"

\* C34: tracking becomes true only after the START_TRACKING response was
\* received, and the toggle flips pfagr only with the response to its
\* command (the teardown clears it); an exchange that raises leaves the
\* flag as it was, and a failed START_TRACKING leaves streaming alone and
\* starts no poller.
C34_FlagsFollowResponses ==
  /\ [][(~tracking /\ tracking') => pc[Toggle] = "set_tracking"]_vars
  /\ [][(pc[Toggle] # "set_tracking" /\ pc'[Toggle] = "set_tracking")
          => (pc[Toggle] = "start_wait" /\ Answered(Toggle))]_vars
  /\ [][pfagr' # pfagr
          => \/ pc[Pfagr] \in {"dis_wait", "en_wait"} /\ Answered(Pfagr)
             \/ TeardownBegins /\ ~pfagr']_vars
  /\ [][Raised(Pfagr) => pfagr' = pfagr]_vars
  /\ [][Raised(Toggle)
          => /\ tracking' = tracking /\ streaming' = streaming
             /\ frame_thread' = frame_thread
             /\ pc'[Toggle] = "idle"
             /\ \A p \in Pollers : pc'[p] = pc[p]]_vars

\* C34, witness: a START_TRACKING whose response was cut by the peer's
\* close has just ended: the flags are false and no poller runs.
C34_StartFailed ==
  /\ lastExchange.by = Toggle /\ lastExchange.st = "conn"
  /\ connected /\ pc[Main] = "idle"
  /\ ~tracking /\ ~streaming /\ frame_thread = NoThread
  /\ \A p \in Pollers : pc[p] = "dead"

\* Thread t is inside `with self._lock` of a locked operation: its command
\* is written and its response not yet read.
InLockedOperation(t) ==
  pc[t] \in {"d_wait", "stop_wait", "start_wait", "dis_wait", "en_wait",
             "wait"}

\* C35: every locked operation releases the lock when it ends, by a return
\* or by an exception: the lock is held only by a thread inside a locked
\* operation, the step that ends an operation frees it, and a lock that is
\* held is free again in the end, for a later operation to take.
C35_LockAlwaysReleased ==
  /\ [](\A t \in Threads : lock = t => InLockedOperation(t))
  /\ [][lastExchange'.st # "none" => lock' = NoThread]_vars
  /\ (lock # NoThread) ~> (lock = NoThread)

\* C35, witness: a read has ended with ConnectionError on this connection
\* and another operation holds the lock.
C35_LockTakenAfterFailure == lost /\ lock # NoThread

\* C36: _race_last is set to the present only by a submission that has put
\* a job into the queue (the session reset sets it to 0.0, the past): a
\* frame that is not eligible, and an eligible frame whose crop or enqueue
\* raises, leave _race_last and the queue as they were.
C36_StampOnlyWithJob ==
  /\ [][race_age' < race_age
          => (lastRender' = "put" /\ race_queue' = Append(race_queue, NewJob))]_vars
  /\ [][lastRender' \in {"skip", "full", "raised", "nothing"}
          => (race_age' = race_age /\ race_queue' = race_queue)]_vars

\* C36, witness: the crop of an eligible frame has just raised: the queue
\* is empty and the rate limiter still lets the next frame through.
C36_CropRaised ==
  /\ lastRender = "raised"
  /\ race_queue = <<>> /\ race_age > RaceInterval /\ ~race_running

\* C37: the busy flag is true only while the worker holds a dequeued job it
\* has not finished; it is false whenever the worker waits on the queue,
\* and so after every job, whether the engine returned or raised.
C37_BusyOnlyWithJob ==
  /\ race_running => (wjob.held /\ wpc \in {"analyze", "finally"})
  /\ wpc = "get" => (~race_running /\ ~wjob.held)

\* C37, witness: a job has been processed and the worker waits on the queue
\* again, with the next job pending.
C37_WaitingAfterJob ==
  /\ wpc = "get" /\ ~race_running
  /\ race_result = "fresh" /\ race_queue # <<>>

\* C38: a job is enqueued only when a worker exists, and every job in the
\* queue is dequeued and processed in the end, in any interleaving with
\* session start, stop, reset, disconnect and reconnect.
C38_EveryJobProcessed ==
  /\ [][lastRender' = "put" => (WorkerAlive /\ WorkerAlive')]_vars
  /\ [](race_queue # <<>> => WorkerAlive)
  /\ (race_queue # <<>>) ~> (race_queue = <<>> /\ wjob.held)
  /\ wjob.held ~> (wpc = "finally")

\* C38, witness: the worker processes a job that was enqueued before a
\* disconnect, after the reconnect.
C38_ProcessedAfterReconnect ==
  /\ wpc = "finally" /\ wjob.stale
  /\ connected /\ sock = "open" /\ pc[Main] = "idle"

====
